---- MODULE Spec2Model ----
(***************************************************************************)
(* Model of tui_rename (src/src/main.rs): a cursive TUI that previews a    *)
(* regex search/replace over the file names given on the command line and  *)
(* gates the commit behind up to two warning dialogs.                      *)
(*                                                                         *)
(* Strings the program computes on (file names, pattern texts, templates)  *)
(* are sequences of one-character strings, so that regex compilation and   *)
(* replace_all are computed rather than assumed.  A path is the sequence   *)
(* of its components, the last one being the file name.                    *)
(***************************************************************************)
EXTENDS Integers, Sequences, FiniteSets, TLC

(***************************************************************************)
(* Bounds of the model.                                                    *)
(***************************************************************************)
\* longest run of command-line arguments a session is started with
MaxArgs == 4
\* number of changes the environment makes to the files during a session
MaxEnvChanges == 1

(***************************************************************************)
(* Input alphabets.                                                        *)
(***************************************************************************)
NameA == <<"a", ".", "t">>
NameB == <<"b", ".", "t">>

\* the command line the windows of arguments are taken from
ArgPool ==
  << [path |-> << <<"d0">>, <<"n", "x">> >>, kind |-> "missing"],
     [path |-> << <<"d1">>, NameA >>,        kind |-> "file"],
     [path |-> << <<"d1">>, NameB >>,        kind |-> "file"],
     [path |-> << <<"d2">>, NameA >>,        kind |-> "file"],
     [path |-> << <<"d3">>, NameA >>,        kind |-> "file"] >>

PoolFiles == { ArgPool[i].path : i \in { j \in 1..Len(ArgPool) : ArgPool[j].kind = "file" } }

\* texts typed into the find field
SearchTexts ==
  { <<>>, <<"a">>, <<"^", "a", "$">>, <<".", "*">>,
    <<"(">>, <<"*", "a">> }

\* texts typed into the replace field
Templates == { <<>>, <<"x">>, <<"$", "0">>, <<"$", "0", "x">> }

(***************************************************************************)
(* Regex::new for the syntax subset  literal . * ^ $ (                     *)
(* A compiled pattern is a sequence of atoms [kind, ch, star].             *)
(***************************************************************************)
NoRegex == <<>>

Atom(k, c) == [kind |-> k, ch |-> c, star |-> FALSE]

\* the atom one pattern character stands for
CharAtom(c) ==
  CASE c = "." -> Atom("any", c)
    [] c = "^" -> Atom("bol", c)
    [] c = "$" -> Atom("eol", c)
    [] OTHER   -> Atom("lit", c)

\* x* over the atoms parsed so far: the repetition binds to the last atom;
\* a repeated assertion matches the empty string only and drops out.
ApplyStar(atoms) ==
  LET n == Len(atoms)
      a == atoms[n]
  IN IF a.kind \in {"bol", "eol"}
       THEN SubSeq(atoms, 1, n - 1)
       ELSE [atoms EXCEPT ![n].star = TRUE]

ErrRepetition == "error: repetition operator missing expression"
ErrUnclosed == "error: unclosed group"

RECURSIVE ParseFrom(_, _, _, _, _)
\* text[i..] parsed after atoms; empty: the current concatenation is empty;
\* open: a group was opened and is not closed.
ParseFrom(text, i, atoms, empty, open) ==
  IF i > Len(text)
    THEN IF open THEN [ok |-> FALSE, re |-> NoRegex, err |-> ErrUnclosed]
                 ELSE [ok |-> TRUE, re |-> atoms, err |-> ""]
    ELSE LET c == text[i] IN
      CASE c = "(" -> ParseFrom(text, i + 1, atoms, TRUE, TRUE)
        [] c = "*" -> IF empty
                        THEN [ok |-> FALSE, re |-> NoRegex, err |-> ErrRepetition]
                        ELSE ParseFrom(text, i + 1, ApplyStar(atoms), FALSE, open)
        [] OTHER   -> ParseFrom(text, i + 1, Append(atoms, CharAtom(c)), FALSE, open)

RegexNew(text) == ParseFrom(text, 1, <<>>, TRUE, FALSE)

(***************************************************************************)
(* Matching: leftmost-first, greedy repetition.  Positions are 1-based,    *)
(* p in 1..Len(s)+1; 0 stands for "no match".                              *)
(***************************************************************************)
AtomMatches(a, c) == IF a.kind = "any" THEN c # "\n" ELSE a.ch = c

RECURSIVE RunLen(_, _, _)
\* how many characters from p on the atom a matches in a row
RunLen(a, s, p) ==
  IF p <= Len(s) /\ AtomMatches(a, s[p]) THEN 1 + RunLen(a, s, p + 1) ELSE 0

RECURSIVE MatchAt(_, _, _, _)
RECURSIVE StarTry(_, _, _, _, _)
\* end of the preferred match of atoms[k..] at p, or 0
MatchAt(atoms, k, s, p) ==
  IF k > Len(atoms) THEN p
  ELSE LET a == atoms[k] IN
    CASE a.kind = "bol" -> IF p = 1 THEN MatchAt(atoms, k + 1, s, p) ELSE 0
      [] a.kind = "eol" -> IF p = Len(s) + 1 THEN MatchAt(atoms, k + 1, s, p) ELSE 0
      [] a.star         -> StarTry(atoms, k, s, p, RunLen(a, s, p))
      [] OTHER          -> IF p <= Len(s) /\ AtomMatches(a, s[p])
                             THEN MatchAt(atoms, k + 1, s, p + 1)
                             ELSE 0

StarTry(atoms, k, s, p, j) ==
  LET r == MatchAt(atoms, k + 1, s, p + j)
  IN IF r # 0 THEN r
     ELSE IF j = 0 THEN 0
     ELSE StarTry(atoms, k, s, p, j - 1)

RECURSIVE FindAt(_, _, _)
\* the leftmost match starting at or after from
FindAt(atoms, s, from) ==
  IF from > Len(s) + 1 THEN [start |-> 0, end |-> 0]
  ELSE LET e == MatchAt(atoms, 1, s, from)
       IN IF e # 0 THEN [start |-> from, end |-> e]
          ELSE FindAt(atoms, s, from + 1)

(***************************************************************************)
(* Replacement templates: $$ is a dollar, $name refers to a capture group  *)
(* (the longest run of name characters); the patterns of the subset have   *)
(* no groups besides group 0, the whole match.                             *)
(***************************************************************************)
Digits == {"0", "1", "2", "3", "4", "5", "6", "7", "8", "9"}
NameChars == Digits \cup {"a", "b", "t", "x", "n", "_"}

RECURSIVE NameLen(_, _)
NameLen(rep, i) ==
  IF i <= Len(rep) /\ rep[i] \in NameChars THEN 1 + NameLen(rep, i + 1) ELSE 0

\* what the capture reference rep[i..i+n-1] expands to
CapRef(rep, i, n, m) ==
  LET name == SubSeq(rep, i, i + n - 1)
  IN IF \A k \in 1..n : name[k] = "0" THEN m ELSE <<>>

RECURSIVE Expand(_, _, _)
Expand(rep, i, m) ==
  IF i > Len(rep) THEN <<>>
  ELSE IF rep[i] # "$" THEN <<rep[i]>> \o Expand(rep, i + 1, m)
  ELSE IF i + 1 <= Len(rep) /\ rep[i + 1] = "$" THEN <<"$">> \o Expand(rep, i + 2, m)
  ELSE LET n == NameLen(rep, i + 1)
       IN IF n = 0 THEN <<"$">> \o Expand(rep, i + 1, m)
          ELSE CapRef(rep, i + 1, n, m) \o Expand(rep, i + 1 + n, m)

RECURSIVE ReplaceFrom(_, _, _, _, _, _)
\* the rest of replace_all: the search resumes at from, lm is the end of the
\* last match (0: none yet), s[cp..] is not copied to the output yet
ReplaceFrom(atoms, s, from, lm, cp, rep) ==
  LET m == FindAt(atoms, s, from)
  IN IF m.start = 0 THEN SubSeq(s, cp, Len(s))
     ELSE IF m.start = m.end /\ m.end = lm
       THEN ReplaceFrom(atoms, s, m.end + 1, lm, cp, rep)
     ELSE SubSeq(s, cp, m.start - 1)
          \o Expand(rep, 1, SubSeq(s, m.start, m.end - 1))
          \o ReplaceFrom(atoms, s, IF m.start = m.end THEN m.end + 1 ELSE m.end,
                         m.end, m.end, rep)

ReplaceAll(atoms, s, rep) == ReplaceFrom(atoms, s, 1, 0, 1, rep)

(***************************************************************************)
(* RenameItem (lines 19-48).                                               *)
(***************************************************************************)
\* Path::file_name: the last component
FileName(path) == path[Len(path)]

RenameItemNew(path) ==
  [original |-> FileName(path), renamed |-> FileName(path), file |-> path]

\* the position of the last dot of a name, 0 without a dot
LastDot(name) ==
  IF \E i \in 1..Len(name) : name[i] = "."
    THEN CHOOSE i \in 1..Len(name) :
           name[i] = "." /\ \A j \in (i + 1)..Len(name) : name[j] # "."
    ELSE 0

\* variant: the pattern is applied to the stem, the extension is kept
SetPattern_stem(item, pat, rep) ==
  LET d == LastDot(item.original)
      stem == IF d = 0 THEN item.original ELSE SubSeq(item.original, 1, d - 1)
      ext == IF d = 0 THEN <<>> ELSE SubSeq(item.original, d, Len(item.original))
  IN [item EXCEPT !.renamed = ReplaceAll(pat, stem, rep) \o ext]

\* variant: the pattern is applied to the previous renamed
SetPattern_fromRenamed(item, pat, rep) ==
  [item EXCEPT !.renamed = ReplaceAll(pat, item.renamed, rep)]

SetPattern(item, pat, rep) ==
  [item EXCEPT !.renamed = ReplaceAll(pat, item.original, rep)]

\* the path rename() builds: PathBuf::push of renamed onto a copy of file
RenameDest(item) == Append(item.file, item.renamed)

\* rename() builds the path and drops it; no filesystem call is made
Rename(item, fs) ==
  LET owned == RenameDest(item)
  IN fs

RECURSIVE RenameEach(_, _, _)
\* the loop of do_rename over items[i..]
RenameEach(its, i, fs) ==
  IF i > Len(its) THEN fs ELSE RenameEach(its, i + 1, Rename(its[i], fs))

\* update_renames: set_pattern on every item of the table
UpdateRenames(its, pat, rep) ==
  [i \in 1..Len(its) |-> SetPattern(its[i], pat, rep)]

(***************************************************************************)
(* The filesystem as the program observes it: the regular files that       *)
(* exist and those of them that are read-only.                             *)
(***************************************************************************)
\* fs::metadata(path) and Permissions::readonly
Metadata(fs, path) ==
  IF path \notin fs.files THEN "err"
  ELSE IF path \in fs.readonly THEN "ro" ELSE "rw"

RECURSIVE PathString(_, _)
\* to_string_lossy of path[i..]: the components joined by the separator
PathString(path, i) ==
  IF i > Len(path) THEN <<>>
  ELSE IF i = Len(path) THEN path[i]
  ELSE path[i] \o <<"/">> \o PathString(path, i + 1)

(***************************************************************************)
(* check_renames (lines 253-280).                                          *)
(***************************************************************************)
RECURSIVE ConflictingFrom_prev(_, _, _)
\* variant: only the name of the previous item is remembered
ConflictingFrom_prev(its, i, unique_set) ==
  IF i > Len(its) THEN <<>>
  ELSE LET item == its[i].renamed
       IN IF item \in unique_set
            THEN <<item>> \o ConflictingFrom_prev(its, i + 1, {item})
            ELSE ConflictingFrom_prev(its, i + 1, {item})

RECURSIVE ConflictingFrom(_, _, _)
\* the first loop over items[i..] with the names inserted so far
ConflictingFrom(its, i, unique_set) ==
  IF i > Len(its) THEN <<>>
  ELSE LET item == its[i].renamed
       IN IF item \in unique_set
            THEN <<item>> \o ConflictingFrom(its, i + 1, unique_set)
            ELSE ConflictingFrom(its, i + 1, unique_set \cup {item})

\* variant: a metadata error is ignored
NotRenameable_ignoreErr(fs, item) == Metadata(fs, item.file) = "ro"

\* the filter of the second pass
NotRenameable(fs, item) ==
  LET meta == Metadata(fs, item.file)
  IN IF meta = "err" THEN TRUE ELSE meta = "ro"

RECURSIVE PermissionFrom(_, _, _)
PermissionFrom(its, i, fs) ==
  IF i > Len(its) THEN <<>>
  ELSE (IF NotRenameable(fs, its[i]) THEN <<PathString(its[i].file, 1)>> ELSE <<>>)
       \o PermissionFrom(its, i + 1, fs)

CheckRenames(its, fs) ==
  [conflicting_names   |-> ConflictingFrom(its, 1, {}),
   permission_problems |-> PermissionFrom(its, 1, fs)]

(***************************************************************************)
(* State.                                                                  *)
(***************************************************************************)
VARIABLES
  find_pat_raw,   \* RenamePatterns.find_pat_raw
  find_pat,       \* RenamePatterns.find_pat
  replace_pat,    \* RenamePatterns.replace_pat
  items,          \* the items of the table view "file_table"
  error_message,  \* content of the text view "error_message"
  layers,         \* the layer stack of the cursive root, top last
  running,        \* the event loop runs (no quit() yet)
  disk,           \* the filesystem: [files, readonly]
  renameCalls,    \* history: the items rename() was invoked on, in order
  commits,        \* history: number of runs of do_rename
  answers,        \* history: the last Apply and how its warnings were answered
  goodText,       \* history: the last search text that compiled
  envChanges      \* history: number of changes made by the environment

vars == <<find_pat_raw, find_pat, replace_pat, items, error_message, layers,
          running, disk, renameCalls, commits, answers, goodText, envChanges>>

patternVars == <<find_pat_raw, find_pat, replace_pat, items, error_message,
                 goodText>>
commitVars == <<disk, renameCalls, commits>>

(***************************************************************************)
(* The layer stack (cursive StackView): events go to the top layer only.   *)
(***************************************************************************)
\* a layer; text: the lines it lists; cancel, cont: its first and its second
\* button are enabled;
\* its, n: what the closures of its buttons captured (items_clone,
\* actual_length; for the summary n is the number it reports)
Layer(name, text, its, n) ==
  [name |-> name, text |-> text, cancel |-> TRUE, cont |-> TRUE,
   its |-> its, n |-> n]
\* a layer whose buttons capture nothing
Plain(name, text) == Layer(name, text, <<>>, 0)

Top == layers[Len(layers)]
TopIs(name) == running /\ Len(layers) > 0 /\ Top.name = name

AddLayer(ls, l) == Append(ls, l)
\* Cursive::pop_layer removes the top layer, whichever it is
PopLayer(ls) == IF Len(ls) = 0 THEN ls ELSE SubSeq(ls, 1, Len(ls) - 1)
\* variant: the test is inverted (is_some)
FindNameIsNone_inverted(ls, name) == \E i \in 1..Len(ls) : ls[i].name = name

\* Cursive::find_name::<Dialog>(name).is_none()
FindNameIsNone(ls, name) == \A i \in 1..Len(ls) : ls[i].name # name
\* variant: nth(0), the Cancel button, is disabled
DisableContinue_first(ls, name) ==
  [i \in 1..Len(ls) |-> IF ls[i].name = name THEN [ls[i] EXCEPT !.cancel = FALSE]
                                             ELSE ls[i]]

\* call_on_name(name, |v| v.buttons_mut().nth(1).unwrap().disable())
DisableContinue(ls, name) ==
  [i \in 1..Len(ls) |-> IF ls[i].name = name THEN [ls[i] EXCEPT !.cont = FALSE]
                                             ELSE ls[i]]

(***************************************************************************)
(* main (lines 76-180): the state when the event loop starts.              *)
(***************************************************************************)
RECURSIVE ItemsOf(_, _)
\* the items pushed for args[i..]
ItemsOf(args, i) ==
  IF i > Len(args) THEN <<>>
  ELSE (IF args[i].kind = "file" THEN <<RenameItemNew(args[i].path)>> ELSE <<>>)
       \o ItemsOf(args, i + 1)

RECURSIVE FailedOf(_, _)
\* failed_items for args[i..]
FailedOf(args, i) ==
  IF i > Len(args) THEN <<>>
  ELSE (IF args[i].kind = "missing" THEN <<PathString(args[i].path, 1)>> ELSE <<>>)
       \o FailedOf(args, i + 1)

InitialLayers(its, failed) ==
  IF its = <<>> THEN <<Plain("no_files", <<>>)>>
  ELSE IF failed # <<>> THEN <<Plain("main", <<>>), Plain("failed_items", failed)>>
  ELSE <<Plain("main", <<>>)>>

NoAnswers == [applied |-> FALSE, names |-> "none", perm |-> "none"]

Init ==
  \E i \in 1..Len(ArgPool), n \in 1..MaxArgs :
    /\ i + n - 1 <= Len(ArgPool)
    /\ LET args == SubSeq(ArgPool, i, i + n - 1)
       IN /\ items = ItemsOf(args, 1)
          /\ layers = InitialLayers(ItemsOf(args, 1), FailedOf(args, 1))
    /\ find_pat_raw = <<>>
    /\ find_pat = RegexNew(<<>>).re
    /\ replace_pat = <<>>
    /\ error_message = ""
    /\ running = TRUE
    /\ disk = [files |-> PoolFiles, readonly |-> {}]
    /\ renameCalls = <<>>
    /\ commits = 0
    /\ answers = NoAnswers
    /\ goodText = <<>>
    /\ envChanges = 0

(***************************************************************************)
(* The pattern fields (lines 190-246).                                     *)
(***************************************************************************)
\* variant: the Err arm stores the pattern of the failed compilation
FindPatAfter_clobber(old, res) == res.re

\* variant: the Ok arm does not store the pattern
FindPatAfter_keep(old, res) == old

\* the match on Regex::new: find_pat after the handler
FindPatAfter(old, res) == IF res.ok THEN res.re ELSE old

\* the items after the handler: update_renames runs in the Ok arm only
ItemsAfter(its, res, pat, rep) ==
  IF res.ok THEN UpdateRenames(its, pat, rep) ELSE its

OnEditFindPattern(new_val) ==
  /\ TopIs("main")
  /\ LET res == RegexNew(new_val)
     IN /\ find_pat_raw' = new_val
        /\ find_pat' = FindPatAfter(find_pat, res)
        /\ error_message' = (IF res.ok THEN "" ELSE res.err)
        /\ items' = ItemsAfter(items, res, FindPatAfter(find_pat, res), replace_pat)
        /\ goodText' = (IF res.ok THEN new_val ELSE goodText)
  /\ UNCHANGED <<replace_pat, layers, running, answers, envChanges>>
  /\ UNCHANGED commitVars

OnSubmitFindPattern(new_val) ==
  /\ TopIs("main")
  /\ LET res == RegexNew(new_val)
     IN /\ find_pat_raw' = new_val
        /\ find_pat' = FindPatAfter(find_pat, res)
        /\ items' = ItemsAfter(items, res, FindPatAfter(find_pat, res), replace_pat)
        /\ layers' = (IF res.ok THEN layers
                      ELSE AddLayer(layers, Plain("pattern_error", << <<res.err>> >>)))
        /\ goodText' = (IF res.ok THEN new_val ELSE goodText)
  /\ UNCHANGED <<replace_pat, error_message, running, answers, envChanges>>
  /\ UNCHANGED commitVars

\* variant: the template is stored without update_renames
OnEditReplacePattern_noUpdate(new_val) ==
  /\ TopIs("main")
  /\ replace_pat' = new_val
  /\ UNCHANGED <<find_pat_raw, find_pat, error_message, goodText, layers,
                 running, answers, envChanges, items>>
  /\ UNCHANGED commitVars

OnEditReplacePattern(new_val) ==
  /\ TopIs("main")
  /\ replace_pat' = new_val
  /\ items' = UpdateRenames(items, find_pat, new_val)
  /\ UNCHANGED <<find_pat_raw, find_pat, error_message, goodText, layers,
                 running, answers, envChanges>>
  /\ UNCHANGED commitVars

(***************************************************************************)
(* apply_renames (lines 282-357) and its dialogs.                          *)
(***************************************************************************)
\* variant: the permissions dialog is added first, the names dialog above it
WarningLayers_namesOnTop(ls, its, check_result, actual_length) ==
  LET withPerm ==
        IF Len(check_result.permission_problems) > 0
          THEN AddLayer(ls, Layer("perm_dialog", check_result.permission_problems,
                                  its, actual_length))
          ELSE ls
  IN IF Len(check_result.conflicting_names) > 0
       THEN AddLayer(withPerm, Layer("names_dialog", check_result.conflicting_names,
                                     its, actual_length))
       ELSE withPerm

\* the layers after the two `if` blocks of apply_renames
WarningLayers(ls, its, check_result, actual_length) ==
  LET withNames ==
        IF Len(check_result.conflicting_names) > 0
          THEN AddLayer(ls, Layer("names_dialog", check_result.conflicting_names,
                                  its, actual_length))
          ELSE ls
  IN IF Len(check_result.permission_problems) > 0
       THEN AddLayer(withNames, Layer("perm_dialog", check_result.permission_problems,
                                      its, actual_length))
       ELSE withNames

\* variant: actual_length is the number of items
ApplyRenames_countAll ==
  /\ TopIs("main")
  /\ LET check_result == CheckRenames(items, disk)
         actual_length == Len(items)
     IN /\ layers' = WarningLayers(layers, items, check_result, actual_length)
        /\ answers' =
             [applied |-> TRUE,
              names |-> IF Len(check_result.conflicting_names) > 0
                          THEN "open" ELSE "none",
              perm  |-> IF Len(check_result.permission_problems) > 0
                          THEN "open" ELSE "none"]
  /\ UNCHANGED <<running, envChanges>>
  /\ UNCHANGED patternVars
  /\ UNCHANGED commitVars

ApplyRenames ==
  /\ TopIs("main")
  /\ LET check_result == CheckRenames(items, disk)
         actual_length == Len(items) - Len(check_result.permission_problems)
     IN /\ layers' = WarningLayers(layers, items, check_result, actual_length)
        /\ answers' =
             [applied |-> TRUE,
              names |-> IF Len(check_result.conflicting_names) > 0
                          THEN "open" ELSE "none",
              perm  |-> IF Len(check_result.permission_problems) > 0
                          THEN "open" ELSE "none"]
  /\ UNCHANGED <<running, envChanges>>
  /\ UNCHANGED patternVars
  /\ UNCHANGED commitVars

\* variant: items with a permission problem are skipped
DoRename_skipFlagged(its, actual_length) ==
  /\ disk' = disk
  /\ renameCalls' = renameCalls \o SelectSeq(its, LAMBDA it : ~NotRenameable(disk, it))
  /\ commits' = commits + 1
  /\ layers' = <<Layer("summary", <<>>, <<>>, actual_length)>>

\* variant: the summary is added over the layers that are there
DoRename_keepLayers(its, actual_length) ==
  /\ disk' = RenameEach(its, 1, disk)
  /\ renameCalls' = renameCalls \o its
  /\ commits' = commits + 1
  /\ layers' = AddLayer(layers, Layer("summary", <<>>, <<>>, actual_length))

\* variant: the loop over the items is left out
DoRename_skipLoop(its, actual_length) ==
  /\ disk' = disk
  /\ renameCalls' = renameCalls
  /\ commits' = commits + 1
  /\ layers' = <<Layer("summary", <<>>, <<>>, actual_length)>>

\* the closure do_rename: rename() on every captured item, every layer
\* popped, the summary added
DoRename(its, actual_length) ==
  /\ disk' = RenameEach(its, 1, disk)
  /\ renameCalls' = renameCalls \o its
  /\ commits' = commits + 1
  /\ layers' = <<Layer("summary", <<>>, <<>>, actual_length)>>

\* variant: Cancel does not pop its dialog
AfterCancel_noPop(ls, other) == DisableContinue(ls, other)

\* variant: Cancel leaves the other dialog as it is
AfterCancel_keep(ls, other) == PopLayer(ls)

\* a Cancel closure: pop_layer, then the other dialog's Continue is disabled
AfterCancel(ls, other) == DisableContinue(PopLayer(ls), other)

\* variant: Continue commits whatever else is open
ContinueCommits_always(popped, other) == TRUE

\* the test of a Continue closure, made after its pop_layer
ContinueCommits(popped, other) == FindNameIsNone(popped, other)

\* a Continue closure of the dialog on top
Continue(other) ==
  IF ContinueCommits(PopLayer(layers), other)
    THEN DoRename(Top.its, Top.n)
    ELSE /\ layers' = PopLayer(layers)
         /\ UNCHANGED commitVars

NamesCancel ==
  /\ TopIs("names_dialog")
  /\ Top.cancel
  /\ layers' = AfterCancel(layers, "perm_dialog")
  /\ answers' = [answers EXCEPT !.names = "cancel"]
  /\ UNCHANGED <<running, envChanges>>
  /\ UNCHANGED patternVars
  /\ UNCHANGED commitVars

NamesContinue ==
  /\ TopIs("names_dialog")
  /\ Top.cont
  /\ Continue("perm_dialog")
  /\ answers' = [answers EXCEPT !.names = "continue"]
  /\ UNCHANGED <<running, envChanges>>
  /\ UNCHANGED patternVars

PermCancel ==
  /\ TopIs("perm_dialog")
  /\ Top.cancel
  /\ layers' = AfterCancel(layers, "names_dialog")
  /\ answers' = [answers EXCEPT !.perm = "cancel"]
  /\ UNCHANGED <<running, envChanges>>
  /\ UNCHANGED patternVars
  /\ UNCHANGED commitVars

PermContinue ==
  /\ TopIs("perm_dialog")
  /\ Top.cont
  /\ Continue("names_dialog")
  /\ answers' = [answers EXCEPT !.perm = "continue"]
  /\ UNCHANGED <<running, envChanges>>
  /\ UNCHANGED patternVars

(***************************************************************************)
(* The other buttons and keys.                                             *)
(***************************************************************************)
\* show_settings_window
ShowSettings ==
  /\ TopIs("main")
  /\ layers' = AddLayer(layers, Plain("settings", <<>>))
  /\ UNCHANGED <<running, answers, envChanges>>
  /\ UNCHANGED patternVars
  /\ UNCHANGED commitVars

\* the Close button of an informational dialog: pop_layer
CloseDialog(name) ==
  /\ TopIs(name)
  /\ layers' = PopLayer(layers)
  /\ UNCHANGED <<running, answers, envChanges>>
  /\ UNCHANGED patternVars
  /\ UNCHANGED commitVars

\* quit(): the Cancel button of the main view, the Finish button of the
\* summary, the Close button of "No files provided!", the key q
Quit ==
  /\ running
  /\ running' = FALSE
  /\ UNCHANGED <<layers, answers, envChanges>>
  /\ UNCHANGED patternVars
  /\ UNCHANGED commitVars

\* Cursive::find_layer_from_name: the position of the layer, 0 without it
FindLayerFromName(ls, name) ==
  IF \E i \in 1..Len(ls) : ls[i].name = name
    THEN CHOOSE i \in 1..Len(ls) :
           ls[i].name = name /\ \A j \in 1..(i - 1) : ls[j].name # name
    ELSE 0

\* StackView::remove_layer(pos)
RemoveLayer(ls, pos) == SubSeq(ls, 1, pos - 1) \o SubSeq(ls, pos + 1, Len(ls))

\* the global key ` : Cursive::toggle_debug_console; the global callbacks
\* are registered on the path of main that shows the main view
ToggleDebugConsole ==
  /\ running
  /\ layers[1].name # "no_files"
  /\ LET pos == FindLayerFromName(layers, "debug_console")
     IN layers' = (IF pos # 0 THEN RemoveLayer(layers, pos)
                   ELSE AddLayer(layers, Plain("debug_console", <<>>)))
  /\ UNCHANGED <<running, answers, envChanges>>
  /\ UNCHANGED patternVars
  /\ UNCHANGED commitVars

(***************************************************************************)
(* The environment: another process removes a candidate file or flips its  *)
(* read-only flag.                                                         *)
(***************************************************************************)
EnvRemove(f) ==
  /\ running
  /\ envChanges < MaxEnvChanges
  /\ f \in disk.files
  /\ disk' = [files |-> disk.files \ {f}, readonly |-> disk.readonly \ {f}]
  /\ envChanges' = envChanges + 1
  /\ UNCHANGED <<layers, running, answers, renameCalls, commits>>
  /\ UNCHANGED patternVars

EnvChmod(f) ==
  /\ running
  /\ envChanges < MaxEnvChanges
  /\ f \in disk.files
  /\ disk' = [disk EXCEPT !.readonly =
                IF f \in @ THEN @ \ {f} ELSE @ \cup {f}]
  /\ envChanges' = envChanges + 1
  /\ UNCHANGED <<layers, running, answers, renameCalls, commits>>
  /\ UNCHANGED patternVars

ItemFiles == { items[i].file : i \in 1..Len(items) }

Next ==
  \/ \E t \in SearchTexts : OnEditFindPattern(t)
  \/ OnSubmitFindPattern(find_pat_raw)
  \/ \E t \in Templates : OnEditReplacePattern(t)
  \/ ApplyRenames
  \/ NamesCancel
  \/ NamesContinue
  \/ PermCancel
  \/ PermContinue
  \/ ShowSettings
  \/ \E name \in {"settings", "pattern_error", "failed_items"} : CloseDialog(name)
  \/ Quit
  \/ ToggleDebugConsole
  \/ \E f \in ItemFiles : EnvRemove(f)
  \/ \E f \in ItemFiles : EnvChmod(f)

Spec == Init /\ [][Next]_vars

TypeOK ==
  /\ find_pat_raw \in SearchTexts
  /\ replace_pat \in Templates
  /\ running \in BOOLEAN
  /\ commits \in 0..1
  /\ Len(items) <= MaxArgs

(***************************************************************************)
(* Vocabulary of the properties.                                           *)
(***************************************************************************)
Warnings == {"names_dialog", "perm_dialog"}
WarningCount(ls) == Cardinality({ i \in 1..Len(ls) : ls[i].name \in Warnings })

\* both warnings were shown by the last Apply
BothShown == answers.names # "none" /\ answers.perm # "none"
\* the last Apply found nothing to warn about
CleanApply == answers.applied /\ answers.names = "none" /\ answers.perm = "none"

\* the layers without the debug console, which a key opens over any of them
UserLayers == SelectSeq(layers, LAMBDA l : l.name # "debug_console")
UserTop == UserLayers[Len(UserLayers)]

Committed == commits = 1 /\ Len(UserLayers) = 1 /\ UserTop.name = "summary"

HasDuplicate(its) ==
  \E i, j \in 1..Len(its) : i < j /\ its[i].renamed = its[j].renamed
SomeNotRenameable(its, fs) ==
  \E i \in 1..Len(its) : Metadata(fs, its[i].file) # "rw"

\* the list the names-conflict dialog of ls shows, empty without the dialog
NamesShown(ls) ==
  IF \E i \in 1..Len(ls) : ls[i].name = "names_dialog"
    THEN ls[CHOOSE i \in 1..Len(ls) : ls[i].name = "names_dialog"].text
    ELSE <<>>

RECURSIVE LaterOccurrences(_, _)
\* the renamed values of its[i..] that an earlier item already has
LaterOccurrences(its, i) ==
  IF i > Len(its) THEN <<>>
  ELSE (IF \E j \in 1..(i - 1) : its[j].renamed = its[i].renamed
          THEN <<its[i].renamed>> ELSE <<>>)
       \o LaterOccurrences(its, i + 1)

Count(seq, v) == Cardinality({ i \in 1..Len(seq) : seq[i] = v })
RenamedOf(its) == [i \in 1..Len(its) |-> its[i].renamed]

\* where rename() is said to put the file: the parent of file joined with renamed
Destination(item) == Append(SubSeq(item.file, 1, Len(item.file) - 1), item.renamed)

InvalidSearchStep ==
  \/ \E t \in SearchTexts : ~RegexNew(t).ok /\ OnEditFindPattern(t)
  \/ ~RegexNew(find_pat_raw).ok /\ OnSubmitFindPattern(find_pat_raw)

(***************************************************************************)
(* C1: when Apply finds neither a name conflict nor a permission problem,  *)
(* the workflow is Committed right away: rename() was invoked for the      *)
(* items and the summary is shown, without a dialog.                       *)
(***************************************************************************)
C1_CleanApplyCommits ==
  CleanApply => Committed /\ renameCalls = items

(***************************************************************************)
(* C2: do_rename runs at most once, and only when every warning shown by   *)
(* the Apply was answered with Continue and none with Cancel; while a      *)
(* warning is still open nothing is committed.                             *)
(***************************************************************************)
C2_CommitOnceAllContinued ==
  /\ commits <= 1
  /\ commits = 1 => /\ answers.applied
                    /\ answers.names \in {"none", "continue"}
                    /\ answers.perm \in {"none", "continue"}
  /\ (answers.names = "open" \/ answers.perm = "open") => commits = 0

C2_Witness ==
  /\ answers.perm = "continue"
  /\ answers.names = "open"
  /\ TopIs("names_dialog")
  /\ commits = 0

(***************************************************************************)
(* C3: when both warnings were shown and one of them was cancelled, no     *)
(* rename() call is issued, whatever is done with the other one.           *)
(***************************************************************************)
C3_CancelAborts ==
  (BothShown /\ (answers.names = "cancel" \/ answers.perm = "cancel"))
    => commits = 0 /\ renameCalls = <<>>

C3_Witness ==
  /\ BothShown
  /\ answers.perm = "cancel"
  /\ answers.names = "cancel"
  /\ WarningCount(layers) = 0
  /\ renameCalls = <<>>

(***************************************************************************)
(* C4: when both warnings were shown, there is a commit exactly when both  *)
(* were answered with Continue: none after the first Continue, one after   *)
(* the second, and it covers all items.                                    *)
(***************************************************************************)
C4_BothContinueCommitOnce ==
  BothShown =>
    /\ commits = (IF answers.names = "continue" /\ answers.perm = "continue"
                    THEN 1 ELSE 0)
    /\ commits = 1 => Committed /\ renameCalls = items

C4_Witness ==
  /\ answers.names = "continue"
  /\ answers.perm = "continue"
  /\ Committed
  /\ Len(renameCalls) >= 2

(***************************************************************************)
(* C5: when Apply finds one kind of problem only, one warning dialog is    *)
(* shown; its Cancel ends the attempt without a rename() call, its         *)
(* Continue commits at once: rename() for the items, then the summary.     *)
(***************************************************************************)
SingleWarning(answer, name) ==
  CASE answer = "open"     -> /\ WarningCount(layers) = 1
                              /\ UserTop.name = name
                              /\ UserTop.cont
                              /\ commits = 0
    [] answer = "cancel"   -> /\ WarningCount(layers) = 0
                              /\ commits = 0
                              /\ renameCalls = <<>>
    [] answer = "continue" -> Committed /\ renameCalls = items
    [] OTHER               -> TRUE

C5_State ==
  /\ answers.perm = "none" => SingleWarning(answers.names, "names_dialog")
  /\ answers.names = "none" => SingleWarning(answers.perm, "perm_dialog")

C5_SingleWarning ==
  /\ []C5_State
  /\ [][ApplyRenames =>
          /\ (answers'.names # "none") = HasDuplicate(items)
          /\ (answers'.perm # "none") = SomeNotRenameable(items, disk)
          /\ WarningCount(layers') = (IF HasDuplicate(items) THEN 1 ELSE 0)
                                   + (IF SomeNotRenameable(items, disk) THEN 1 ELSE 0)]_vars

C5_Witness ==
  /\ answers.names = "none"
  /\ answers.perm = "continue"
  /\ Committed
  /\ renameCalls = items

(***************************************************************************)
(* C6: a search text that does not compile, edited or submitted, leaves    *)
(* find_pat and every item as they were; only find_pat_raw and the error   *)
(* display (the status line, or the error dialog on submit) change.        *)
(***************************************************************************)
C6_InvalidSearchKeepsPattern ==
  [][InvalidSearchStep =>
       /\ find_pat' = find_pat
       /\ items' = items
       /\ UNCHANGED <<replace_pat, running, answers, goodText, envChanges>>
       /\ UNCHANGED commitVars
       /\ layers' = layers \/ PopLayer(layers') = layers]_vars

C6_Witness ==
  /\ ~RegexNew(find_pat_raw).ok
  /\ error_message = ErrUnclosed
  /\ find_pat = RegexNew(<<"a">>).re
  /\ replace_pat = <<"x">>
  /\ items[1].renamed = <<"x", ".", "t">>

(***************************************************************************)
(* C7: every item's renamed is the substitution of the current find_pat    *)
(* with the current replace_pat over its original, also after a template   *)
(* edit made while the search text is invalid.                             *)
(***************************************************************************)
C7_RenamedIsSubstitution ==
  \A i \in 1..Len(items) :
    items[i].renamed = ReplaceAll(find_pat, items[i].original, replace_pat)

C7_Witness ==
  /\ ~RegexNew(find_pat_raw).ok
  /\ find_pat = RegexNew(<<".", "*">>).re
  /\ replace_pat = <<"$", "0", "x">>
  /\ Len(items) >= 2
  /\ \A i \in 1..Len(items) : items[i].renamed = <<>>

(***************************************************************************)
(* C8: find_pat is the compiled form of the most recent search text that   *)
(* compiled, the empty text at first.                                      *)
(***************************************************************************)
C8_PatternOfLastGoodText ==
  /\ RegexNew(goodText).ok
  /\ find_pat = RegexNew(goodText).re

C8_Witness ==
  /\ goodText = <<"^", "a", "$">>
  /\ find_pat_raw = <<"*", "a">>
  /\ find_pat = RegexNew(<<"^", "a", "$">>).re

(***************************************************************************)
(* C9: after the commit the file of every item is in its parent directory  *)
(* under the name renamed, and not under original when the names differ.   *)
(***************************************************************************)
C9_RenameMovesFile ==
  (commits = 1 /\ envChanges = 0) =>
    \A i \in 1..Len(renameCalls) :
      LET item == renameCalls[i]
      IN /\ Destination(item) \in disk.files
         /\ item.renamed # item.original => item.file \notin disk.files

(***************************************************************************)
(* C10: conflicting_names holds, in item order, the renamed value of every *)
(* item that an earlier item shares it with: N items of one name give N-1  *)
(* entries, the first occurrence is not flagged, distinct names give none. *)
(***************************************************************************)
C10_State ==
  \A k \in 1..Len(layers) :
    layers[k].name = "names_dialog" =>
      LET names == RenamedOf(layers[k].its)
      IN /\ layers[k].text = LaterOccurrences(layers[k].its, 1)
         /\ \A i \in 1..Len(names) :
              Count(layers[k].text, names[i]) = Count(names, names[i]) - 1

C10_ConflictingNames ==
  /\ []C10_State
  /\ [][ApplyRenames =>
          /\ NamesShown(layers') = LaterOccurrences(items, 1)
          /\ ~HasDuplicate(items) => NamesShown(layers') = <<>>]_vars

C10_Witness ==
  \E k \in 1..Len(layers) :
    /\ layers[k].name = "names_dialog"
    /\ Len(layers[k].its) >= 3
    /\ layers[k].its[1].renamed # layers[k].its[2].renamed
    /\ layers[k].its[1].renamed = layers[k].its[3].renamed
    /\ Len(layers[k].text) = Len(layers[k].its) - 2
    /\ \A i \in 1..Len(layers[k].text) : layers[k].text[i] = layers[k].its[1].renamed

(***************************************************************************)
(* C11: permission_problems holds the path of an item exactly when its     *)
(* metadata cannot be read or marks it read-only, once each, in item       *)
(* order; an unreadable item is never left out.                            *)
(***************************************************************************)
Flagged(fs, item) == item.file \notin fs.files \/ item.file \in fs.readonly
FlaggedIndexes(its, fs) == { i \in 1..Len(its) : Flagged(fs, its[i]) }

\* the k-th flagged item, in item order
KthFlagged(its, fs, k) ==
  CHOOSE i \in FlaggedIndexes(its, fs) :
    Cardinality({ j \in FlaggedIndexes(its, fs) : j < i }) = k - 1

\* the list the permissions dialog of ls shows, empty without the dialog
PermShown(ls) ==
  IF \E i \in 1..Len(ls) : ls[i].name = "perm_dialog"
    THEN ls[CHOOSE i \in 1..Len(ls) : ls[i].name = "perm_dialog"].text
    ELSE <<>>

C12_EmptyPatternKeepsNames ==
  find_pat = RegexNew(<<>>).re =>
    \A i \in 1..Len(items) : items[i].renamed = items[i].original

(***************************************************************************)
(* C13: the number of the summary is the number of items minus the number  *)
(* of items the check of the committing Apply flagged for permissions; it  *)
(* is fixed when Apply is pressed and is not negative.                     *)
(***************************************************************************)
C13_State ==
  \A k \in 1..Len(layers) :
    /\ layers[k].n >= 0
    /\ layers[k].name = "perm_dialog" =>
         layers[k].n = Len(layers[k].its) - Len(layers[k].text)

C13_SummaryCount ==
  /\ []C13_State
  /\ [][ApplyRenames =>
          \A k \in (Len(layers) + 1)..Len(layers') :
            layers'[k].n = Len(items) - Cardinality(FlaggedIndexes(items, disk))]_vars
  /\ [][commits' = commits + 1 =>
          /\ layers'[1].name = "summary"
          /\ layers'[1].n = Top.n
          /\ Top.name \in Warnings]_vars

C13_Witness ==
  /\ Committed
  /\ Len(renameCalls) >= 2
  /\ UserLayers[1].n = Len(renameCalls) - 1

(***************************************************************************)
(* C14: when both warnings are open and one is answered with Cancel, the   *)
(* other one stays open with its Continue button disabled and its Cancel   *)
(* button enabled.                                                         *)
(***************************************************************************)
OpenAfterCancel(name) ==
  \E k \in 1..Len(layers) :
    /\ layers[k].name = name
    /\ ~layers[k].cont
    /\ layers[k].cancel

C14_OtherContinueDisabled ==
  /\ (answers.perm = "cancel" /\ answers.names = "open")
       => OpenAfterCancel("names_dialog")
  /\ (answers.names = "cancel" /\ answers.perm = "open")
       => OpenAfterCancel("perm_dialog")

C14_Witness ==
  /\ answers.perm = "cancel"
  /\ answers.names = "open"
  /\ TopIs("names_dialog")
  /\ ~Top.cont
  /\ Top.cancel

(***************************************************************************)
(* C15: a commit invokes rename() exactly once for each item, in item      *)
(* order, also for the items flagged by the check; without a commit there  *)
(* is no rename() call.                                                    *)
(***************************************************************************)
C15_RenameEveryItem ==
  /\ commits = 0 => renameCalls = <<>>
  /\ commits = 1 => /\ Len(renameCalls) = Len(items)
                    /\ \A i \in 1..Len(items) : renameCalls[i] = items[i]

C15_Witness ==
  /\ Committed
  /\ \E i \in 1..Len(renameCalls) : Flagged(disk, renameCalls[i])
  /\ HasDuplicate(renameCalls)

(***************************************************************************)
(* C16: with candidates a.t and b.t, the search pattern ^a$ and the        *)
(* replacement x.  As claimed: the stem is replaced, a.t becomes x.t.      *)
(* As amended: the pattern is applied to the whole name, extension         *)
(* included, so the anchored pattern matches neither name and both keep    *)
(* their original.                                                         *)
(***************************************************************************)
AnchoredCase ==
  /\ find_pat = RegexNew(<<"^", "a", "$">>).re
  /\ replace_pat = <<"x">>

C16_StemReplaced ==
  AnchoredCase =>
    \A i \in 1..Len(items) :
      items[i].renamed = (IF items[i].original = NameA THEN <<"x", ".", "t">>
                          ELSE items[i].original)

C16_WholeNameMatched ==
  AnchoredCase =>
    \A i \in 1..Len(items) : items[i].renamed = items[i].original

C16_Witness ==
  /\ AnchoredCase
  /\ Len(items) >= 2
  /\ items[1].original = NameA
  /\ items[1].renamed = NameA
  /\ items[2].original = NameB
  /\ items[2].renamed = NameB

(***************************************************************************)
(* C17: set_pattern applied a second time with the same pattern and        *)
(* template gives the item of the first application.                       *)
(***************************************************************************)
C17_SetPatternIdempotent ==
  \A i \in 1..Len(items) :
    LET once == SetPattern(items[i], find_pat, replace_pat)
    IN SetPattern(once, find_pat, replace_pat) = once

C17_Witness ==
  /\ find_pat = RegexNew(<<>>).re
  /\ replace_pat = <<"x">>
  /\ Len(items) >= 1
  /\ items[1].original = NameA
  /\ items[1].renamed = <<"x", "a", "x", ".", "x", "t", "x">>

(***************************************************************************)
(* C18: the permissions dialog is stacked above the names dialog, and the  *)
(* layer a Cancel or Continue handler pops is its own dialog: a names      *)
(* handler runs only when no permissions dialog is on the stack, and a     *)
(* permissions handler leaves the names dialog where it is.                *)
(***************************************************************************)
C18_State ==
  \A i, j \in 1..Len(layers) :
    (layers[i].name = "names_dialog" /\ layers[j].name = "perm_dialog") => i < j

NamesAnswered == answers.names = "open" /\ answers'.names \in {"cancel", "continue"}
PermAnswered == answers.perm = "open" /\ answers'.perm \in {"cancel", "continue"}

C18_HandlerPopsOwnDialog ==
  /\ []C18_State
  /\ [][NamesAnswered =>
          /\ Top.name = "names_dialog"
          /\ FindLayerFromName(layers, "perm_dialog") = 0
          /\ FindLayerFromName(layers', "names_dialog") = 0]_vars
  /\ [][PermAnswered =>
          /\ Top.name = "perm_dialog"
          /\ FindLayerFromName(layers', "perm_dialog") = 0
          /\ FindLayerFromName(layers', "names_dialog")
               = FindLayerFromName(layers, "names_dialog")]_vars

C18_Witness ==
  /\ answers.perm = "continue"
  /\ answers.names = "cancel"
  /\ WarningCount(layers) = 0
  /\ commits = 0

(***************************************************************************)
(* C19: after an aborted attempt no warning dialog is left, the main view  *)
(* is there, nothing was renamed, the attempt changed neither the patterns *)
(* nor the items, and the next Apply shows what its own check finds, with  *)
(* every button enabled.                                                   *)
(***************************************************************************)
Aborted ==
  /\ answers.applied
  /\ answers.names = "cancel" \/ answers.perm = "cancel"
  /\ answers.names # "open"
  /\ answers.perm # "open"

C19_State ==
  Aborted => /\ WarningCount(layers) = 0
             /\ layers[1].name = "main"
             /\ commits = 0
             /\ renameCalls = <<>>

C19_AbortedIsIdle ==
  /\ []C19_State
  /\ [][(answers.names = "open" \/ answers.perm = "open") =>
          UNCHANGED patternVars]_vars
  /\ [][ApplyRenames =>
          /\ (FindLayerFromName(layers', "names_dialog") # 0) = HasDuplicate(items)
          /\ (FindLayerFromName(layers', "perm_dialog") # 0)
               = (FlaggedIndexes(items, disk) # {})
          /\ \A k \in (Len(layers) + 1)..Len(layers') :
               /\ layers'[k].cont
               /\ layers'[k].cancel
               /\ layers'[k].its = items]_vars

C19_Witness ==
  /\ Aborted
  /\ answers.perm = "continue"
  /\ TopIs("main")
  /\ replace_pat = <<"x">>

(***************************************************************************)
(* C20: once do_rename has run.  As claimed: nothing changes any more but  *)
(* the exit of the process.  As amended: only the summary is left of the   *)
(* layers, the main view included; no pattern, item, answer or rename()    *)
(* call changes any more; what remains is the exit of the process and the  *)
(* key that opens and closes the debug console over the summary.           *)
(***************************************************************************)
C20_OnlyExitRemains ==
  [][commits = 1 =>
       /\ layers' = layers
       /\ renameCalls' = renameCalls
       /\ commits' = commits
       /\ UNCHANGED patternVars]_vars

C20_State ==
  commits = 1 => /\ Committed
                 /\ FindLayerFromName(layers, "main") = 0
                 /\ layers[1].name = "summary"

C20_CommittedTerminal ==
  /\ []C20_State
  /\ [][commits = 1 =>
          /\ UserLayers' = UserLayers
          /\ renameCalls' = renameCalls
          /\ commits' = commits
          /\ answers' = answers
          /\ UNCHANGED patternVars]_vars

C20_Witness ==
  /\ commits = 1
  /\ Len(layers) = 2
  /\ Top.name = "debug_console"
  /\ ~running

====
